---- MODULE Spec2Model ----
(***************************************************************************)
(* Scan orchestration pipeline of use-k8s-mcp:                             *)
(*   ClusterScanner   src/src/scanner/cluster_scanner.py                   *)
(*   ResourceParser   src/src/scanner/resource_parser.py                   *)
(*   ScanCoordinator  src/src/scanner/scan_coordinator.py                  *)
(* The record store (src.cache.CacheManager) is not part of the sources;   *)
(* its create / read / cleanup operations are modelled from the design     *)
(* document and are marked as such where they are defined.                 *)
(***************************************************************************)
EXTENDS Integers, Sequences, FiniteSets, TLC

VARIABLES
    max_retries,      \* ScanCoordinator.max_retries
    tool_available,   \* what tool_loader.get_tool_capabilities would report
    missing_tables,   \* tables the record store does not have
    pc,               \* position of the scan_cluster_full coroutine
    cluster_name,     \* argument of the running / last session
    include_static,   \* argument of the running / last session
    include_dynamic,  \* argument of the running / last session
    tier,             \* tier whose retry loop is running
    attempt,          \* loop variable of _scan_*_with_retry
    raw,              \* results of the sub-calls scan_*_resources has made so far
    results,          \* results dict of scan_cluster_full
    returned,         \* what the last scan_cluster_full call handed back
    scan_sessions,    \* ScanCoordinator.scan_sessions
    successful_scans, \* ScanCoordinator.successful_scans
    failed_scans,     \* ScanCoordinator.failed_scans
    scanner,          \* ClusterScanner counters
    parser,           \* ResourceParser counters
    store,            \* record store: table -> rows
    metadata,         \* rows of the cache_metadata table, in write order
    now,              \* wall clock, seconds
    last_read,        \* rows handed back by the last freshness-filtered read
    last_cleanup,     \* dict returned by the last cleanup_expired_cache
    scanner_calls,    \* history: scan_*_resources calls of this session, per tier
    sleeps,           \* history: asyncio.sleep arguments of this session, per tier
    agent_log,        \* history: agent.run invocations of the current scanner call
    scan_exc,         \* history: how the last failed scanner call surfaced
    meta_failed,      \* history: metadata writes of this session the store refused
    last_health,      \* dict returned by the last health_check
    validation,       \* last validate_parsed_data call: arguments and outcome
    conc,             \* two scan_cluster_full coroutines run side by side
    last_parse        \* last direct call of a ResourceParser method

vars == <<max_retries, tool_available, missing_tables, pc,
          cluster_name, include_static, include_dynamic, tier, attempt,
          raw, results, returned, scan_sessions, successful_scans,
          failed_scans, scanner, parser, store, metadata, now, last_read,
          last_cleanup, scanner_calls, sleeps, agent_log, scan_exc,
          meta_failed, last_health, validation, conc, last_parse>>

----------------------------------------------------------------------------
(* Bounds of the exploration *)

MaxRetries == 2     \* max_retries is drawn from 0..MaxRetries
MaxRows == 2        \* rows written directly in SpecCache
MaxNow == 2700      \* the clock stops advancing here
MaxContainers == 3  \* entries of status.containerStatuses of a pod
MaxParsed == 3      \* direct Parser calls stop once the counters add up to this
MaxSessions == 3    \* sessions one Coordinator runs one after the other in SpecSessions

(* Program constants *)

static_ttl == 1800
retry_delay == 5
dynamic_ttl == 300
TickSeconds == 900  \* granularity of the modelled clock

Clusters == {"prod"}
Absent == "<absent>"
NoTier == "none"

----------------------------------------------------------------------------
(* ClusterScanner *)

STATIC_RESOURCE_TOOLS ==
    [cluster |-> "GET_CLUSTER_INFO", namespaces |-> "LIST_NAMESPACES",
     nodes |-> "LIST_NODES"]

DYNAMIC_RESOURCE_TOOLS ==
    [pods |-> "LIST_CORE_RESOURCES", services |-> "LIST_CORE_RESOURCES",
     deployments |-> "LIST_APPS_RESOURCES", configmaps |-> "LIST_CORE_RESOURCES",
     secrets |-> "LIST_CORE_RESOURCES"]

Tools == {"GET_CLUSTER_INFO", "LIST_NAMESPACES", "LIST_NODES",
          "LIST_CORE_RESOURCES", "LIST_APPS_RESOURCES"}

\* order of the sub-calls of scan_static_resources / scan_dynamic_resources
StaticKinds == <<"cluster", "namespaces", "nodes">>
DynamicKinds == <<"pods", "services", "deployments", "configmaps", "secrets">>

\* variant: the cluster-info sub-call is made a second time
KindsOf_ClusterTwice(t) ==
    IF t = "static" THEN <<"cluster">> \o StaticKinds ELSE DynamicKinds

\* the sub-calls one scan_static_resources / scan_dynamic_resources call makes
KindsOf(t) == IF t = "static" THEN StaticKinds ELSE DynamicKinds

ToolOf(kind) ==
    IF kind \in DOMAIN STATIC_RESOURCE_TOOLS
    THEN STATIC_RESOURCE_TOOLS[kind] ELSE DYNAMIC_RESOURCE_TOOLS[kind]

(* The tool-invocation agent: what agent.run can do under wait_for *)
AgentOutcomes == {"reply", "timeout", "connection", "other"}

NoExc == "none"

\* an element of a reply's 'items' list; isdict = FALSE is a prose fragment
Item(isdict, name, data) ==
    [isdict |-> isdict, name |-> name, namespace |-> "default",
     data |-> data, binaryData |-> {}, labels |-> {<<"app", "web">>}]

Named(n) == Item(TRUE, n, {})
Unnamed == Item(TRUE, Absent, {})
Junk == Item(FALSE, Absent, {})
Secret(n, v) == Item(TRUE, n, {<<"password", v>>})

TextReply == [isdict |-> FALSE, items |-> <<>>]
DictReply(items) == [isdict |-> TRUE, items |-> items]

\* replies the agent may give for one resource kind: a well-formed one and a
\* malformed one (prose instead of a dict, or a list holding a prose fragment)
Replies(kind) ==
    CASE kind = "cluster" -> {DictReply(<<>>), TextReply}
      [] kind = "namespaces" -> {DictReply(<<Named("a"), Unnamed, Named("b")>>),
                                 DictReply(<<Named("a"), Junk>>)}
      [] kind = "nodes" -> {DictReply(<<Named("a"), Named("b")>>),
                            DictReply(<<Junk>>)}
      [] kind = "pods" -> {DictReply(<<Named("a"), Named("b")>>), TextReply}
      [] kind = "secrets" -> {DictReply(<<Secret("a", "v1")>>),
                              DictReply(<<Secret("a", "v2")>>)}
      [] OTHER -> {DictReply(<<Named("a")>>)}

AllReplies ==
    UNION {Replies(k) : k \in {"cluster", "namespaces", "nodes", "pods",
                               "services", "secrets"}}

\* _call_mcp_tool: exception type it raises for an agent outcome
CallMcpToolRaises(outcome) ==
    CASE outcome = "timeout" -> "ScanTimeoutError"
      [] outcome = "connection" -> "ClusterConnectionError"
      [] outcome = "other" -> "ScanError"
      [] OTHER -> NoExc

\* scan_static_resources / scan_dynamic_resources: every exception of a
\* sub-call is caught and re-raised as ScanError
ScanResourcesRaises(inner) == IF inner = NoExc THEN NoExc ELSE "ScanError"

\* _scan_cluster_info returns the reply unmodified; the list kinds return
\* result.get('items', []) if isinstance(result, dict) else []
SubCallResult(kind, reply) ==
    IF kind = "cluster" THEN reply
    ELSE IF reply.isdict THEN reply.items ELSE <<>>

----------------------------------------------------------------------------
(* ResourceParser *)

RECURSIVE AllDicts(_)
AllDicts(items) ==
    IF items = <<>> THEN TRUE
    ELSE Head(items).isdict /\ AllDicts(Tail(items))

\* the loop shared by parse_namespaces / parse_nodes / parse_pods /
\* parse_services: items without a name are skipped
RECURSIVE NamedPayloads(_, _)
NamedPayloads(items, cname) ==
    IF items = <<>> THEN <<>>
    ELSE IF Head(items).name = Absent THEN NamedPayloads(Tail(items), cname)
    ELSE <<[cluster_name |-> cname, namespace |-> Head(items).namespace,
            name |-> Head(items).name]>>
         \o NamedPayloads(Tail(items), cname)

KeysOf(pairs) == {p[1] : p \in pairs}

\* the loop of parse_configmaps: key names and counts, never the values
RECURSIVE ConfigMapPayloads(_, _)
ConfigMapPayloads(items, cname) ==
    IF items = <<>> THEN <<>>
    ELSE IF Head(items).name = Absent THEN ConfigMapPayloads(Tail(items), cname)
    ELSE <<[cluster_name |-> cname, namespace |-> Head(items).namespace,
            name |-> Head(items).name,
            data_keys |-> KeysOf(Head(items).data),
            binary_data_keys |-> KeysOf(Head(items).binaryData),
            total_keys |-> Cardinality(Head(items).data)
                           + Cardinality(Head(items).binaryData),
            labels |-> Head(items).labels,
            annotations |-> {}]>>
         \o ConfigMapPayloads(Tail(items), cname)

\* parse_cluster_info: a reply that is not a dict makes raw_data.get fail; the
\* handler then builds ResourceParseError without its context argument, so
\* what leaves the method is a TypeError
parse_cluster_info(rawval, cname) ==
    IF rawval.isdict
    THEN [exc |-> NoExc, recs |-> <<[cluster_name |-> cname, namespace |-> Absent,
                                     name |-> cname]>>]
    ELSE [exc |-> "TypeError", recs |-> <<>>]

\* variant: items without a name are turned into records as well
parse_list_KeepUnnamed(rawval, cname) ==
    IF AllDicts(rawval)
    THEN [exc |-> NoExc,
          recs |-> [i \in 1..Len(rawval) |->
                      [cluster_name |-> cname, namespace |-> rawval[i].namespace,
                       name |-> rawval[i].name]]]
    ELSE [exc |-> "NameError", recs |-> <<>>]

\* parse_namespaces / parse_nodes / parse_pods / parse_services: an item that
\* is not a dict makes .get fail; the handler calls create_exception_context,
\* which this module never imports, so what leaves the method is a NameError
parse_list(rawval, cname) ==
    IF AllDicts(rawval)
    THEN [exc |-> NoExc, recs |-> NamedPayloads(rawval, cname)]
    ELSE [exc |-> "NameError", recs |-> <<>>]

parse_configmaps(rawval, cname) ==
    IF AllDicts(rawval)
    THEN [exc |-> NoExc, recs |-> ConfigMapPayloads(rawval, cname)]
    ELSE [exc |-> "NameError", recs |-> <<>>]

(* _extract_pod_status *)

PodPhases == {Absent, "Pending", "Running", "Succeeded", "Failed", "Unknown",
              "Evicted"}

\* the 'ready' entry of a container status: True, False, or no such key
ReadyValues == {"true", "false", Absent}

ContainerStatusLists == UNION {[1..n -> ReadyValues] : n \in 0..MaxContainers}

\* the 'status' dict of a pod
PodData == [phase : PodPhases, containerStatuses : ContainerStatusLists]

\* cs.get('ready', False)
ReadyOf(cs) == cs = "true"

\* variant: one ready container is enough
extract_pod_status_AnyReady(pod) ==
    LET phase == IF pod.phase = Absent THEN "Unknown" ELSE pod.phase
        any_ready == \E i \in 1..Len(pod.containerStatuses) :
                         ReadyOf(pod.containerStatuses[i])
    IN IF pod.containerStatuses # <<>> /\ phase = "Running"
       THEN IF any_ready THEN "Running" ELSE "NotReady"
       ELSE phase

\* _extract_pod_status
extract_pod_status(pod) ==
    LET phase == IF pod.phase = Absent THEN "Unknown" ELSE pod.phase
        all_ready == \A i \in 1..Len(pod.containerStatuses) :
                         ReadyOf(pod.containerStatuses[i])
    IN IF pod.containerStatuses # <<>>
       THEN IF phase = "Running" /\ all_ready THEN "Running"
            ELSE IF phase = "Running" /\ ~all_ready THEN "NotReady"
            ELSE phase
       ELSE phase

\* parse_deployments: the same loop and the same handler as the other list
\* kinds
parse_deployments(rawval, cname) ==
    IF AllDicts(rawval)
    THEN [exc |-> NoExc, recs |-> NamedPayloads(rawval, cname)]
    ELSE [exc |-> "NameError", recs |-> <<>>]

\* parsed_count / error_count after one parse_* call
ParserAfter(p, res) ==
    IF res.exc = NoExc
    THEN [p EXCEPT !.parsed_count = @ + Len(res.recs)]
    ELSE [p EXCEPT !.error_count = @ + 1]

(* validate_parsed_data *)

\* None as a field value
Null == "<null>"

\* field values are written as tokens; the ones that are ints >= 0
NonNegativeTokens == {"3", "0"}

valid_phases == {"Pending", "Running", "Succeeded", "Failed", "Unknown"}
valid_types == {"ClusterIP", "NodePort", "LoadBalancer", "ExternalName"}

\* data.get(field): None when the key is missing
DictGet(fields, field) == IF field \in DOMAIN fields THEN fields[field] ELSE Null

\* 'if not data': None, an empty dict, an empty list
Falsy(data) == data.shape = "empty" \/ (data.shape = "dict" /\ DOMAIN data.fields = {})

\* the body of the try block: the exception it ends with, NoExc for
\* 'return True'
ValidationError(data, resource_type, required_fields) ==
    IF Falsy(data) THEN "ValueError"
    ELSE IF /\ data.shape = "dict"
            /\ \E f \in required_fields : DictGet(data.fields, f) = Null
    THEN "ValueError"
    ELSE IF resource_type \notin {"cluster", "pod", "service"} THEN NoExc
    ELSE IF data.shape # "dict" THEN "AttributeError"
    ELSE IF resource_type = "cluster"
    THEN IF DictGet(data.fields, "node_count") \in NonNegativeTokens
         THEN NoExc ELSE "ValueError"
    ELSE IF resource_type = "pod"
    THEN IF DictGet(data.fields, "phase") \in valid_phases
         THEN NoExc ELSE "ValueError"
    ELSE IF DictGet(data.fields, "type") \in valid_types
         THEN NoExc ELSE "ValueError"

\* the except handlers of the Parser build their context with
\* create_exception_context, a name the module does not import: the handler
\* itself ends with a NameError before the typed exception is built
ParserHandlerRaises(class) == "NameError"

validate_parsed_data(data, resource_type, required_fields) ==
    IF ValidationError(data, resource_type, required_fields) = NoExc
    THEN [kind |-> "true", exc |-> NoExc]
    ELSE [kind |-> "raised", exc |-> ParserHandlerRaises("ScanValidationError")]

\* arguments tried
ValidationFieldValues ==
    [name |-> {"web", Null}, node_count |-> {"3", "-1", "many", Null},
     phase |-> {"Running", "Evicted"}, type |-> {"ClusterIP", "Headless"}]

ValidationFieldSets == {{}, {"name"}, {"name", "node_count"}, {"name", "phase"},
                        {"name", "type"}, {"node_count"}, {"phase"}, {"type"}}

ValidationTokens == UNION {ValidationFieldValues[k] : k \in DOMAIN ValidationFieldValues}

NoFields == [k \in {} |-> Null]

ValidationData ==
    {[shape |-> "empty", fields |-> NoFields],
     [shape |-> "text", fields |-> NoFields]}
    \cup {[shape |-> "dict", fields |-> f] :
            f \in UNION {{g \in [d -> ValidationTokens] :
                             \A k \in d : g[k] \in ValidationFieldValues[k]} :
                         d \in ValidationFieldSets}}

ValidationKinds == {"cluster", "pod", "service", "namespace"}

ValidationRequired == {{}, {"name"}, {"name", "node_count"}, {"name", "phase"},
                       {"name", "type"}}

----------------------------------------------------------------------------
(* Record store (src.cache.CacheManager) *)

RecordTables == {"clusters", "namespaces", "nodes", "pods", "services",
                 "configmaps", "secrets"}

\* tables written directly in SpecCache
CacheTables == {"clusters", "pods", "secrets"}

\* what the store may lack: nothing, the two tables the query scripts never
\* read, the metadata table, or one table in the middle of the cleanup order
StoreLayouts == {{}, {"configmaps", "secrets"}, {"cache_metadata"},
                 {"namespaces"}}

StaticTables == {"clusters", "namespaces", "nodes"}

TtlOf(table) == IF table \in StaticTables THEN static_ttl ELSE dynamic_ttl

\* create_record stamps the row with its freshness window
Row(payload, table, t) == [data |-> payload, ttl_expires_at |-> t + TtlOf(table)]

\* a row is stale once now > ttl_expires_at
Fresh(row, t) == ~(t > row.ttl_expires_at)

RECURSIVE SelectSeq2(_, _)
SelectSeq2(rows, t) ==
    IF rows = <<>> THEN <<>>
    ELSE IF Fresh(Head(rows), t) THEN <<Head(rows)>> \o SelectSeq2(Tail(rows), t)
    ELSE SelectSeq2(Tail(rows), t)

\* list_records / get_record: the freshness-filtered read path
list_records(st, table, t) == SelectSeq2(st[table], t)

\* cleanup_expired_records(table): leaves the fresh rows, returns the count
cleanup_expired_records(st, table, t) ==
    [rows |-> SelectSeq2(st[table], t),
     cleaned |-> Len(st[table]) - Len(SelectSeq2(st[table], t))]

----------------------------------------------------------------------------
(* ScanCoordinator *)

EmptyData == [k \in {} |-> 0]

AbsentTier == [state |-> "absent", attempt |-> 0, data |-> EmptyData, error |-> NoExc]

EmptyStats == [total_resources |-> 0, static_resources |-> 0,
               dynamic_resources |-> 0, resource_breakdown |-> EmptyData]

\* key of the tier's count dict and table the records of a kind go to
TableOfKind(kind) == IF kind = "cluster" THEN "clusters" ELSE kind

\* kinds _parse_and_store_static / _parse_and_store_dynamic have a branch for
HandledKinds == {"cluster", "namespaces", "nodes", "pods", "services",
                 "configmaps", "secrets"}

ParseKind(kind, rawval, cname) ==
    IF kind = "cluster" THEN parse_cluster_info(rawval, cname)
    ELSE IF kind \in {"configmaps", "secrets"} THEN parse_configmaps(rawval, cname)
    ELSE parse_list(rawval, cname)

\* variant: the parsed record is persisted as it is
SecretMeta_Whole(secret) == secret

\* the secret_meta dict built for every parsed secret
SecretMeta(secret) ==
    [cluster_name |-> secret.cluster_name, namespace |-> secret.namespace,
     name |-> secret.name, total_keys |-> secret.total_keys,
     labels |-> secret.labels]

RECURSIVE MapSecretMeta(_)
MapSecretMeta(recs) ==
    IF recs = <<>> THEN <<>>
    ELSE <<SecretMeta(Head(recs))>> \o MapSecretMeta(Tail(recs))

\* what is handed to create_record for the parsed records of a kind
Persisted(kind, recs) == IF kind = "secrets" THEN MapSecretMeta(recs) ELSE recs

\* the create_record loop of one kind; a call on a table the store lacks
\* raises
RECURSIVE StoreAll(_, _, _)
StoreAll(ctx, table, recs) ==
    IF recs = <<>> \/ ctx.exc # NoExc THEN ctx
    ELSE IF table \in missing_tables
    THEN [ctx EXCEPT !.exc = "StoreError"]
    ELSE StoreAll([ctx EXCEPT !.store[table] = Append(@, Row(Head(recs), table, now)),
                              !.writes = @ + 1],
                  table, Tail(recs))

\* _parse_and_store_static / _parse_and_store_dynamic: kind by kind, parse,
\* then create the records, then enter the count
RECURSIVE ParseAndStore(_, _, _, _)
ParseAndStore(ctx, kinds, rawseq, cname) ==
    IF kinds = <<>> \/ ctx.exc # NoExc THEN ctx
    ELSE IF Head(kinds) \notin HandledKinds
    THEN ParseAndStore(ctx, Tail(kinds), Tail(rawseq), cname)
    ELSE LET kind == Head(kinds)
             res == ParseKind(kind, Head(rawseq), cname)
             c1 == [ctx EXCEPT !.parser = ParserAfter(@, res), !.exc = res.exc]
             c2 == StoreAll(c1, TableOfKind(kind), Persisted(kind, res.recs))
             c3 == [c2 EXCEPT !.data = (TableOfKind(kind) :> Len(res.recs)) @@ @]
         IN IF res.exc # NoExc THEN c1
            ELSE IF c2.exc # NoExc THEN c2
            ELSE ParseAndStore(c3, Tail(kinds), Tail(rawseq), cname)

StartCtx == [store |-> store, parser |-> parser, data |-> EmptyData,
             exc |-> NoExc, writes |-> 0]

\* exception classes met in a session, all of them subclasses of Exception
ExceptionClasses == {"ScanError", "ScanTimeoutError", "ClusterConnectionError",
                     "ToolNotFoundError", "TypeError", "NameError", "StoreError"}

\* K8sAgentException.__init__(self, message, context): a scanner exception
\* built from a message alone fails in the constructor call
ConstructException(class, hasContext) ==
    IF hasContext THEN class ELSE "TypeError"

\* raise ScanError(f"...") from e, at the end of scan_cluster_full
ScanClusterFullRaises == ConstructException("ScanError", FALSE)

\* variant: the retry loops catch ScanError only
RetryLoopCatches_OnlyScanError(err) == err = "ScanError"

\* 'except Exception as e' of _scan_static_with_retry / _scan_dynamic_with_retry
RetryLoopCatches(err) == err \in ExceptionClasses

\* variant: _update_scan_status without its try / except
UpdateScanStatusCatches_None(err) == FALSE

\* 'except Exception as e' of _update_scan_status
UpdateScanStatusCatches(err) == err \in ExceptionClasses

\* variant: the loop gives up one attempt early
ShouldRetry_OffByOne(att) == att + 1 < max_retries

\* for attempt in range(self.max_retries + 1): ... if attempt < self.max_retries
ShouldRetry(att) == att < max_retries

\* asyncio.sleep(self.retry_delay * (attempt + 1))
BackoffDelay(att) == retry_delay * (att + 1)

\* the dict a retry loop returns
SuccessResult(att, data) ==
    [state |-> "ok", attempt |-> att + 1, data |-> data, error |-> NoExc]

FailureResult(att, err) ==
    [state |-> "failed", attempt |-> att + 1, data |-> EmptyData, error |-> err]

\* variant: the dynamic tier is skipped once the static tier has failed
TierRequested_UnlessFailed(t, is, id) ==
    IF t = "static" THEN is ELSE id /\ results.static.state # "failed"

\* 'if include_static:' / 'if include_dynamic:' of scan_cluster_full
TierRequested(t, is, id) == IF t = "static" THEN is ELSE id

\* variant: the dynamic tier is started first
NextTier_DynamicFirst(after, is, id) ==
    IF after = "begin" /\ TierRequested("dynamic", is, id) THEN "dynamic"
    ELSE IF after \in {"begin", "dynamic"} /\ TierRequested("static", is, id)
    THEN "static"
    ELSE NoTier

\* order of the tiers in scan_cluster_full
NextTier(after, is, id) ==
    IF after = "begin" /\ TierRequested("static", is, id) THEN "static"
    ELSE IF after \in {"begin", "static"} /\ TierRequested("dynamic", is, id)
    THEN "dynamic"
    ELSE NoTier

PcForTier(t) == IF t = NoTier THEN "stats" ELSE "running"

\* status scan_cluster_full writes after a tier's retry loop has returned
TerminalStatus(tierResult) == "completed"

\* _calculate_next_scan_time
CalculateNextScanTime(resource_type, t) ==
    IF resource_type = "dynamic" THEN t + dynamic_ttl ELSE t + static_ttl

\* the CacheMetadata object built by _update_scan_status
MetaRow(cname, resource_type, status, t) ==
    [table_name |-> resource_type \o "_scan", cluster_name |-> cname,
     scan_status |-> status,
     last_scan_at |-> IF status \in {"completed", "failed"} THEN t ELSE -1,
     next_scan_at |-> CalculateNextScanTime(resource_type, t)]

\* variant: the status record of a (tier, cluster) is updated in place
UpdateScanStatus_InPlace(md, cname, resource_type, status, t) ==
    LET row == MetaRow(cname, resource_type, status, t)
        same == {i \in 1..Len(md) : /\ md[i].table_name = row.table_name
                                    /\ md[i].cluster_name = cname}
    IN IF "cache_metadata" \in missing_tables THEN md
       ELSE IF same = {} THEN Append(md, row)
       ELSE [md EXCEPT ![CHOOSE i \in same : TRUE] = row]

\* _update_scan_status: the create_record is inside try / except Exception,
\* a refused write changes nothing else
UpdateScanStatus(md, cname, resource_type, status, t) ==
    IF "cache_metadata" \notin missing_tables
    THEN Append(md, MetaRow(cname, resource_type, status, t)) ELSE md

MetaRefused == IF "cache_metadata" \in missing_tables THEN 1 ELSE 0

\* where scan_cluster_full goes on after an _update_scan_status call: the
\* refusal of the store is caught inside it
PcAfterStatus(nextpc) ==
    IF MetaRefused = 1 /\ ~UpdateScanStatusCatches("StoreError")
    THEN "raised" ELSE nextpc

RECURSIVE SumCounts(_)
SumCounts(data) ==
    IF DOMAIN data = {} THEN 0
    ELSE LET k == CHOOSE x \in DOMAIN data : TRUE
         IN data[k] + SumCounts([y \in DOMAIN data \ {k} |-> data[y]])

\* variant: the total leaves out the dynamic tier
CalculateScanStatistics_StaticOnly(res) ==
    [total_resources |-> SumCounts(res.static.data),
     static_resources |-> SumCounts(res.static.data),
     dynamic_resources |-> SumCounts(res.dynamic.data),
     resource_breakdown |-> res.dynamic.data @@ res.static.data]

\* _calculate_scan_statistics
CalculateScanStatistics(res) ==
    LET sd == res.static.data
        dd == res.dynamic.data
    IN [total_resources |-> SumCounts(sd) + SumCounts(dd),
        static_resources |-> SumCounts(sd),
        dynamic_resources |-> SumCounts(dd),
        resource_breakdown |-> dd @@ sd]

Max1(n) == IF n >= 1 THEN n ELSE 1

\* get_scan_stats: success_rate = (scan_count - error_count) / max(1, scan_count)
\* * 100, kept as the fraction rate_num / rate_den of 100
get_scan_stats(sc) ==
    [scan_count |-> sc.scan_count, error_count |-> sc.error_count,
     rate_num |-> sc.scan_count - sc.error_count,
     rate_den |-> Max1(sc.scan_count)]

\* get_parsing_stats
get_parsing_stats(p) ==
    [parsed_count |-> p.parsed_count, error_count |-> p.error_count,
     rate_num |-> p.parsed_count - p.error_count,
     rate_den |-> Max1(p.parsed_count)]

\* stats['success_rate'] < pct
RateBelow(stats, pct) == stats.rate_num * 100 < pct * stats.rate_den

\* the issues list of health_check, one tag per appended message
HealthIssues(statsFails, sc, p) ==
    (IF statsFails THEN <<"cache_manager">> ELSE <<>>)
    \o (IF RateBelow(get_scan_stats(sc), 50) THEN <<"cluster_scanner">> ELSE <<>>)
    \o (IF RateBelow(get_parsing_stats(p), 90) THEN <<"resource_parser">> ELSE <<>>)

\* variant: two issues already count as unhealthy
HealthStatus_TwoIsUnhealthy(issues) ==
    IF issues = <<>> THEN "healthy"
    ELSE IF Len(issues) < 2 THEN "degraded" ELSE "unhealthy"

\* the overall status health_check derives from the issues
HealthStatus(issues) ==
    IF issues = <<>> THEN "healthy"
    ELSE IF Len(issues) <= 2 THEN "degraded" ELSE "unhealthy"

\* the components dict of health_check
HealthComponents(statsFails, sc, p) ==
    [cache_manager |-> IF statsFails THEN "unhealthy" ELSE "healthy",
     cluster_scanner |-> IF RateBelow(get_scan_stats(sc), 50)
                         THEN "degraded" ELSE "healthy",
     resource_parser |-> IF RateBelow(get_parsing_stats(p), 90)
                         THEN "degraded" ELSE "healthy"]

----------------------------------------------------------------------------
(* State machine *)

EmptyResults == [cluster_name |-> Absent, static |-> AbsentTier,
                 dynamic |-> AbsentTier, statistics |-> EmptyStats]

NoScanExc == [cause |-> NoExc, kind |-> Absent, inner |-> NoExc, surfaced |-> NoExc]

NoReturn == [kind |-> "none", value |-> EmptyResults, exc |-> NoExc]

NoRead == [table |-> Absent, rows |-> <<>>]

NoCleanup == [done |-> FALSE, stats |-> EmptyData]

NoHealth == [kind |-> "none", status |-> Absent, issues |-> <<>>,
             components |-> EmptyData]

NoValidation == [kind |-> "none", data |-> [shape |-> "empty", fields |-> NoFields],
                 resource_type |-> Absent, required_fields |-> {},
                 result |-> [kind |-> "none", exc |-> NoExc]]

NoPod == [phase |-> Absent, containerStatuses |-> <<>>]

NoParse == [op |-> "none", pod |-> NoPod, status |-> Absent, kind |-> Absent,
            rawval |-> <<>>, exc |-> NoExc,
            before |-> [parsed_count |-> 0, error_count |-> 0]]

Sessions == {"A", "B"}

IdleSession == [pc |-> "idle", is |-> FALSE, id |-> FALSE, tier |-> NoTier,
                attempt |-> 0, raw |-> <<>>, results |-> EmptyResults]

NoConc == [sess |-> [s \in Sessions |-> IdleSession], log |-> <<>>]

EmptyPerTier(v) == [static |-> v, dynamic |-> v]

\* the state after ScanCoordinator(...), ClusterScanner(...), ResourceParser()
Init ==
    /\ max_retries \in 0..MaxRetries
    /\ tool_available \in BOOLEAN
    /\ missing_tables \in StoreLayouts
    /\ pc = "idle"
    /\ cluster_name = Absent
    /\ include_static = FALSE
    /\ include_dynamic = FALSE
    /\ tier = NoTier
    /\ attempt = 0
    /\ raw = <<>>
    /\ results = EmptyResults
    /\ returned = NoReturn
    /\ scan_sessions = 0
    /\ successful_scans = 0
    /\ failed_scans = 0
    /\ scanner = [scan_count |-> 0, error_count |-> 0]
    /\ parser = [parsed_count |-> 0, error_count |-> 0]
    /\ store = [t \in RecordTables |-> <<>>]
    /\ metadata = <<>>
    /\ now = 0
    /\ last_read = NoRead
    /\ last_cleanup = NoCleanup
    /\ scanner_calls = EmptyPerTier(0)
    /\ sleeps = EmptyPerTier(<<>>)
    /\ agent_log = <<>>
    /\ scan_exc = NoScanExc
    /\ meta_failed = 0
    /\ last_health = NoHealth
    /\ validation = NoValidation
    /\ conc = NoConc
    /\ last_parse = NoParse

cfgVars == <<max_retries, tool_available, missing_tables>>
argVars == <<cluster_name, include_static, include_dynamic>>
counterVars == <<scan_sessions, successful_scans, failed_scans>>
readVars == <<last_read, last_cleanup, last_health, validation, conc, last_parse>>
sideVars == <<last_health, validation, conc, last_parse>>

\* scan_cluster_full, up to its first _update_scan_status
StartSession(c, is, id) ==
    /\ pc = "idle"
    /\ scan_sessions' = scan_sessions + 1
    /\ cluster_name' = c
    /\ include_static' = is
    /\ include_dynamic' = id
    /\ results' = [EmptyResults EXCEPT !.cluster_name = c]
    /\ tier' = NextTier("begin", is, id)
    /\ pc' = PcForTier(tier')
    /\ attempt' = 0
    /\ raw' = <<>>
    /\ scanner_calls' = EmptyPerTier(0)
    /\ sleeps' = EmptyPerTier(<<>>)
    /\ agent_log' = <<>>
    /\ scan_exc' = NoScanExc
    /\ meta_failed' = 0
    /\ last_health' = NoHealth
    /\ UNCHANGED <<cfgVars, returned, successful_scans, failed_scans, scanner,
                   parser, store, metadata, now, last_read, last_cleanup,
                   validation, conc, last_parse>>

\* the exploration follows the first session of a freshly constructed
\* Coordinator
ScanClusterFull(c, is, id) ==
    /\ scan_sessions = 0
    /\ StartSession(c, is, id)

\* _update_scan_status(cluster_name, tier, 'running'), then the retry loop is
\* entered
UpdateStatusRunning ==
    /\ pc = "running"
    /\ metadata' = UpdateScanStatus(metadata, cluster_name, tier, "running", now)
    /\ meta_failed' = meta_failed + MetaRefused
    /\ attempt' = 0
    /\ raw' = <<>>
    /\ pc' = PcAfterStatus("scan")
    /\ UNCHANGED <<cfgVars, argVars, tier, results, returned, counterVars,
                   scanner, parser, store, now, readVars, scanner_calls, sleeps,
                   agent_log, scan_exc>>

\* the except branch of a retry loop: back off and go round again, or return
\* the failure dict
AttemptFails(err) ==
    IF ~RetryLoopCatches(err)
    THEN /\ sleeps' = sleeps
         /\ pc' = "raised"
         /\ results' = results
    ELSE IF ShouldRetry(attempt)
    THEN /\ sleeps' = [sleeps EXCEPT ![tier] = Append(@, BackoffDelay(attempt))]
         /\ pc' = "sleep"
         /\ results' = results
    ELSE /\ sleeps' = sleeps
         /\ pc' = "terminal"
         /\ results' = [results EXCEPT ![tier] = FailureResult(attempt, err)]

\* one sub-call of scan_static_resources / scan_dynamic_resources: the
\* instruction is built and agent.run awaited under the timeout
CallMcpTool(outcome, reply) ==
    /\ pc = "scan"
    /\ LET kind == KindsOf(tier)[Len(raw) + 1]
           inner == CallMcpToolRaises(outcome)
       IN /\ outcome = "reply" => reply \in Replies(kind)
          /\ agent_log' = Append(IF raw = <<>> THEN <<>> ELSE agent_log, kind)
          /\ scanner_calls' = IF raw = <<>>
                              THEN [scanner_calls EXCEPT ![tier] = @ + 1]
                              ELSE scanner_calls
          /\ IF outcome = "reply"
             THEN /\ raw' = Append(raw, SubCallResult(kind, reply))
                  /\ IF Len(raw') = Len(KindsOf(tier))
                     THEN /\ scanner' = [scanner EXCEPT !.scan_count = @ + 1]
                          /\ pc' = "parse"
                     ELSE /\ scanner' = scanner
                          /\ pc' = "scan"
                  /\ UNCHANGED <<scan_exc, sleeps, results>>
             ELSE /\ reply = TextReply
                  /\ raw' = <<>>
                  /\ scanner' = [scanner EXCEPT !.error_count = @ + 1]
                  /\ scan_exc' = [cause |-> outcome, kind |-> kind, inner |-> inner,
                                  surfaced |-> ScanResourcesRaises(inner)]
                  /\ AttemptFails(ScanResourcesRaises(inner))
    /\ UNCHANGED <<cfgVars, argVars, tier, attempt, returned, counterVars,
                   parser, store, metadata, now, readVars, meta_failed>>

\* variant: a failed attempt takes back the records it created
StoreAfterAttempt_Rollback(ctx) == IF ctx.exc = NoExc THEN ctx.store ELSE store

\* the store when _parse_and_store_* has returned or raised: neither it nor
\* the except branch of the retry loop deletes what the attempt created
StoreAfterAttempt(ctx) == ctx.store

\* _parse_and_store_static / _parse_and_store_dynamic and the return of the
\* retry loop
ParseAndStoreStep ==
    /\ pc = "parse"
    /\ LET ctx == ParseAndStore(StartCtx, KindsOf(tier), raw, cluster_name)
       IN /\ store' = StoreAfterAttempt(ctx)
          /\ parser' = ctx.parser
          /\ IF ctx.exc = NoExc
             THEN /\ results' = [results EXCEPT ![tier] = SuccessResult(attempt, ctx.data)]
                  /\ pc' = "terminal"
                  /\ sleeps' = sleeps
             ELSE AttemptFails(ctx.exc)
    /\ raw' = <<>>
    /\ UNCHANGED <<cfgVars, argVars, tier, attempt, returned, counterVars,
                   scanner, metadata, now, readVars, scanner_calls, agent_log,
                   scan_exc, meta_failed>>

\* variant: the loop variable stays where it is
NextAttempt_Stuck(att) == att

\* 'for attempt in range(self.max_retries + 1)': the next value of the loop
\* variable
NextAttempt(att) == att + 1

\* asyncio.sleep(...) returns; continue
Sleep ==
    /\ pc = "sleep"
    /\ attempt' = NextAttempt(attempt)
    /\ pc' = "scan"
    /\ agent_log' = <<>>
    /\ scan_exc' = NoScanExc
    /\ UNCHANGED <<cfgVars, argVars, tier, raw, results, returned, counterVars,
                   scanner, parser, store, metadata, now, readVars,
                   scanner_calls, sleeps, meta_failed>>

\* results[tier] has been assigned; _update_scan_status(cluster_name, tier,
\* 'completed'); on to the next requested tier or to the statistics
UpdateStatusTerminal ==
    /\ pc = "terminal"
    /\ metadata' = UpdateScanStatus(metadata, cluster_name, tier,
                                    TerminalStatus(results[tier]), now)
    /\ meta_failed' = meta_failed + MetaRefused
    /\ tier' = NextTier(tier, include_static, include_dynamic)
    /\ pc' = PcAfterStatus(PcForTier(tier'))
    /\ agent_log' = <<>>
    /\ scan_exc' = NoScanExc
    /\ UNCHANGED <<cfgVars, argVars, attempt, raw, results, returned,
                   counterVars, scanner, parser, store, now, readVars,
                   scanner_calls, sleeps>>

\* _calculate_scan_statistics, successful_scans += 1, return results
ReturnResults ==
    /\ pc = "stats"
    /\ results' = [results EXCEPT !.statistics = CalculateScanStatistics(results)]
    /\ successful_scans' = successful_scans + 1
    /\ returned' = [kind |-> "result", value |-> results', exc |-> NoExc]
    /\ pc' = "idle"
    /\ UNCHANGED <<cfgVars, argVars, tier, attempt, raw, scan_sessions,
                   failed_scans, scanner, parser, store, metadata, now, readVars,
                   scanner_calls, sleeps, agent_log, scan_exc,
                   meta_failed>>

\* variant: the except branch does not count the session
FailedAfterRaise_NotCounted(n) == n

\* self.failed_scans += 1 in the except branch of scan_cluster_full
FailedAfterRaise(n) == n + 1

\* _calculate_scan_statistics raises: the except branch of scan_cluster_full
\* counts the failure, writes the 'all' / 'failed' status and raises
StatisticsRaises ==
    /\ pc = "stats"
    /\ failed_scans' = FailedAfterRaise(failed_scans)
    /\ metadata' = UpdateScanStatus(metadata, cluster_name, "all", "failed", now)
    /\ meta_failed' = meta_failed + MetaRefused
    /\ returned' = [kind |-> "raised", value |-> EmptyResults,
                    exc |-> ScanClusterFullRaises]
    /\ pc' = "idle"
    /\ UNCHANGED <<cfgVars, argVars, tier, attempt, raw, results, scan_sessions,
                   successful_scans, scanner, parser, store, now, readVars,
                   scanner_calls, sleeps, agent_log, scan_exc>>

\* health_check; statsFails: cache_manager.get_cache_stats() raises
HealthCheck(statsFails) ==
    /\ pc = "idle"
    /\ LET issues == HealthIssues(statsFails, scanner, parser)
       IN last_health' = [kind |-> "result", status |-> HealthStatus(issues),
                          issues |-> issues,
                          components |-> HealthComponents(statsFails, scanner, parser)]
    /\ UNCHANGED <<cfgVars, argVars, pc, tier, attempt, raw, results, returned,
                   counterVars, scanner, parser, store, metadata, now,
                   last_read, last_cleanup, scanner_calls, sleeps, agent_log,
                   scan_exc, meta_failed, validation, conc, last_parse>>

\* a caller validates one parsed record
ValidateParsedData(data, resource_type, required_fields) ==
    /\ pc = "idle"
    /\ validation' = [kind |-> "done", data |-> data,
                      resource_type |-> resource_type,
                      required_fields |-> required_fields,
                      result |-> validate_parsed_data(data, resource_type,
                                                      required_fields)]
    /\ UNCHANGED <<cfgVars, argVars, pc, tier, attempt, raw, results, returned,
                   counterVars, scanner, parser, store, metadata, now,
                   last_read, last_cleanup, scanner_calls, sleeps, agent_log,
                   scan_exc, meta_failed, last_health, conc, last_parse>>

\* time passes between operations
Tick ==
    /\ pc = "idle"
    /\ now + TickSeconds <= MaxNow
    /\ now' = now + TickSeconds
    /\ last_read' = NoRead
    /\ last_cleanup' = NoCleanup
    /\ UNCHANGED <<cfgVars, argVars, pc, tier, attempt, raw, results, returned,
                   counterVars, scanner, parser, store, metadata,
                   scanner_calls, sleeps, agent_log, scan_exc,
                   meta_failed, sideVars>>

\* a consumer reads a table through the freshness filter
ListRecords(table) ==
    /\ pc = "idle"
    /\ table \notin missing_tables
    /\ last_read' = [table |-> table, rows |-> list_records(store, table, now)]
    /\ last_cleanup' = NoCleanup
    /\ UNCHANGED <<cfgVars, argVars, pc, tier, attempt, raw, results, returned,
                   counterVars, scanner, parser, store, metadata, now,
                   scanner_calls, sleeps, agent_log, scan_exc, meta_failed,
                   sideVars>>

\* variant: the loop of cleanup_expired_cache leaves out the pods
CleanupTables_NoPods == {"clusters", "namespaces", "nodes", "services",
                         "configmaps", "secrets"}

\* tables cleanup_expired_cache visits: the keys of cleanup_stats but 'total'
CleanupTables == {"clusters", "namespaces", "nodes", "pods", "services",
                  "configmaps", "secrets"}

\* one iteration of the loop of cleanup_expired_cache: a table whose cleanup
\* raises keeps its 0 and the loop goes on
CleanedCount(st, table, t) ==
    IF table \in missing_tables THEN 0
    ELSE cleanup_expired_records(st, table, t).cleaned

\* order of the keys of cleanup_stats, which is the order of the loop
CleanupOrder == <<"clusters", "namespaces", "nodes", "pods", "services",
                  "configmaps", "secrets">>

PositionIn(order, table) == CHOOSE i \in 1..Len(order) : order[i] = table

\* variant: the first table whose cleanup raises ends the loop
RowsAfterCleanup_AbortOnFailure(st, table, t) ==
    IF /\ table \in CleanupTables
       /\ \A i \in 1..PositionIn(CleanupOrder, table) :
             CleanupOrder[i] \notin missing_tables
    THEN cleanup_expired_records(st, table, t).rows
    ELSE st[table]

\* the rows of a table after the loop: a table whose cleanup raises is left
\* as it is
RowsAfterCleanup(st, table, t) ==
    IF table \in CleanupTables /\ table \notin missing_tables
    THEN cleanup_expired_records(st, table, t).rows
    ELSE st[table]

\* cleanup_expired_cache
CleanupExpiredCache ==
    /\ pc = "idle"
    /\ store' = [t \in RecordTables |-> RowsAfterCleanup(store, t, now)]
    /\ LET counts == [t \in CleanupTables |-> CleanedCount(store, t, now)]
       IN last_cleanup' = [done |-> TRUE,
                           stats |-> ("total" :> SumCounts(counts)) @@ counts]
    /\ last_read' = NoRead
    /\ UNCHANGED <<cfgVars, argVars, pc, tier, attempt, raw, results, returned,
                   counterVars, scanner, parser, metadata, now,
                   scanner_calls, sleeps, agent_log, scan_exc,
                   meta_failed, sideVars>>

\* a direct cache_manager.create_record(table, record) by another writer
CreateRecord(table, name) ==
    /\ pc = "idle"
    /\ table \notin missing_tables
    /\ SumCounts([t \in RecordTables |-> Len(store[t])]) < MaxRows
    /\ store' = [store EXCEPT ![table] =
                    Append(@, Row([cluster_name |-> "prod", namespace |-> "default",
                                   name |-> name], table, now))]
    /\ last_read' = NoRead
    /\ last_cleanup' = NoCleanup
    /\ UNCHANGED <<cfgVars, argVars, pc, tier, attempt, raw, results, returned,
                   counterVars, scanner, parser, metadata, now,
                   scanner_calls, sleeps, agent_log, scan_exc, meta_failed,
                   sideVars>>

Next ==
    \/ \E c \in Clusters, is \in BOOLEAN, id \in BOOLEAN : ScanClusterFull(c, is, id)
    \/ UpdateStatusRunning
    \/ \E outcome \in AgentOutcomes, reply \in AllReplies :
          CallMcpTool(outcome, reply)
    \/ ParseAndStoreStep
    \/ Sleep
    \/ UpdateStatusTerminal
    \/ ReturnResults
    \/ StatisticsRaises
    \/ \E statsFails \in BOOLEAN : HealthCheck(statsFails)

\* one Coordinator running scan sessions
Spec == Init /\ [][Next]_vars

\* the steps of a running session: every awaited Scanner call returns or
\* raises, every sleep ends, and the code between two awaits runs on
SessionStep ==
    \/ UpdateStatusRunning
    \/ \E outcome \in {"reply", "timeout"}, reply \in AllReplies :
          CallMcpTool(outcome, reply)
    \/ ParseAndStoreStep
    \/ Sleep
    \/ UpdateStatusTerminal
    \/ ReturnResults
    \/ StatisticsRaises

NextLive ==
    \/ \E c \in Clusters, is \in BOOLEAN, id \in BOOLEAN : ScanClusterFull(c, is, id)
    \/ SessionStep

InitLive == Init /\ tool_available /\ missing_tables = {}

\* sessions whose awaits all come back
SpecLive == InitLive /\ [][NextLive]_vars /\ WF_vars(SessionStep)

\* one Coordinator is asked for a static scan again and again
NextSessions ==
    \/ \E c \in Clusters :
          scan_sessions < MaxSessions /\ StartSession(c, TRUE, FALSE)
    \/ SessionStep

InitSessions == Init /\ max_retries = 1 /\ tool_available /\ missing_tables = {}

SpecSessions == InitSessions /\ [][NextSessions]_vars

NextCache ==
    \/ \E table \in CacheTables, name \in {"a"} : CreateRecord(table, name)
    \/ Tick
    \/ \E table \in CacheTables : ListRecords(table)
    \/ CleanupExpiredCache

\* the record store being written, read and cleaned while time passes
InitCache == Init /\ max_retries = 0 /\ tool_available

SpecCache == InitCache /\ [][NextCache]_vars

----------------------------------------------------------------------------
(* Two scan_cluster_full coroutines of one Coordinator on one event loop,  *)
(* for the same cluster: each runs from await to await, the other may run  *)
(* in between.                                                             *)

concShared == <<cfgVars, argVars, pc, tier, attempt, raw, results, returned,
                failed_scans, now, last_read, last_cleanup, scanner_calls,
                sleeps, agent_log, scan_exc, meta_failed, last_health,
                validation, last_parse>>

SetSession(s, rec) == [conc EXCEPT !.sess[s] = rec]

LogEntry(s, t, status) == [session |-> s, tier |-> t, status |-> status]

\* variant: a tier is entered only while no other session is inside it
ConcMayEnterTier_Exclusive(s) ==
    \A o \in Sessions \ {s} :
        \/ conc.sess[o].tier # conc.sess[s].tier
        \/ conc.sess[o].pc \notin {"scan", "parse", "sleep", "terminal"}

\* scan_cluster_full takes no lock and checks no status before it enters a
\* tier
ConcMayEnterTier(s) == TRUE

\* the except branch of a retry loop, for the session's own loop variable
ConcAfterFailure(sr, err) ==
    IF ShouldRetry(sr.attempt)
    THEN [sr EXCEPT !.pc = "sleep", !.raw = <<>>]
    ELSE [sr EXCEPT !.pc = "terminal", !.raw = <<>>,
                    !.results[sr.tier] = FailureResult(sr.attempt, err)]

ConcScanClusterFull(s, is, id) ==
    /\ conc.sess[s].pc = "idle"
    /\ scan_sessions' = scan_sessions + 1
    /\ LET t == NextTier("begin", is, id)
       IN conc' = SetSession(s, [pc |-> PcForTier(t), is |-> is, id |-> id,
                                 tier |-> t, attempt |-> 0, raw |-> <<>>,
                                 results |-> [EmptyResults EXCEPT
                                                !.cluster_name = "prod"]])
    /\ UNCHANGED <<concShared, successful_scans, scanner, parser, store, metadata>>

ConcUpdateStatusRunning(s) ==
    /\ conc.sess[s].pc = "running"
    /\ ConcMayEnterTier(s)
    /\ metadata' = UpdateScanStatus(metadata, "prod", conc.sess[s].tier,
                                    "running", now)
    /\ conc' = [conc EXCEPT !.sess[s].pc = "scan", !.sess[s].attempt = 0,
                            !.sess[s].raw = <<>>,
                            !.log = Append(@, LogEntry(s, conc.sess[s].tier,
                                                       "running"))]
    /\ UNCHANGED <<concShared, scan_sessions, successful_scans, scanner, parser,
                   store>>

ConcCallMcpTool(s, outcome, reply) ==
    LET sr == conc.sess[s]
        kind == KindsOf(sr.tier)[Len(sr.raw) + 1]
        rawAfter == Append(sr.raw, SubCallResult(kind, reply))
    IN /\ sr.pc = "scan"
       /\ IF outcome = "reply"
          THEN /\ reply \in Replies(kind)
               /\ IF Len(rawAfter) = Len(KindsOf(sr.tier))
                  THEN /\ scanner' = [scanner EXCEPT !.scan_count = @ + 1]
                       /\ conc' = SetSession(s, [sr EXCEPT !.raw = rawAfter,
                                                           !.pc = "parse"])
                  ELSE /\ scanner' = scanner
                       /\ conc' = SetSession(s, [sr EXCEPT !.raw = rawAfter])
          ELSE /\ reply = TextReply
               /\ scanner' = [scanner EXCEPT !.error_count = @ + 1]
               /\ conc' = SetSession(s, ConcAfterFailure(sr,
                              ScanResourcesRaises(CallMcpToolRaises(outcome))))
       /\ UNCHANGED <<concShared, scan_sessions, successful_scans, parser, store,
                      metadata>>

ConcParseAndStore(s) ==
    LET sr == conc.sess[s]
        ctx == ParseAndStore(StartCtx, KindsOf(sr.tier), sr.raw, "prod")
    IN /\ sr.pc = "parse"
       /\ store' = StoreAfterAttempt(ctx)
       /\ parser' = ctx.parser
       /\ conc' = SetSession(s,
             IF ctx.exc = NoExc
             THEN [sr EXCEPT !.pc = "terminal", !.raw = <<>>,
                             !.results[sr.tier] = SuccessResult(sr.attempt, ctx.data)]
             ELSE ConcAfterFailure(sr, ctx.exc))
       /\ UNCHANGED <<concShared, scan_sessions, successful_scans, scanner,
                      metadata>>

ConcSleep(s) ==
    /\ conc.sess[s].pc = "sleep"
    /\ conc' = [conc EXCEPT !.sess[s].pc = "scan", !.sess[s].attempt = @ + 1]
    /\ UNCHANGED <<concShared, scan_sessions, successful_scans, scanner, parser,
                   store, metadata>>

ConcUpdateStatusTerminal(s) ==
    LET sr == conc.sess[s]
        status == TerminalStatus(sr.results[sr.tier])
        t == NextTier(sr.tier, sr.is, sr.id)
    IN /\ sr.pc = "terminal"
       /\ metadata' = UpdateScanStatus(metadata, "prod", sr.tier, status, now)
       /\ conc' = [conc EXCEPT !.sess[s].pc = PcForTier(t), !.sess[s].tier = t,
                               !.log = Append(@, LogEntry(s, sr.tier, status))]
       /\ UNCHANGED <<concShared, scan_sessions, successful_scans, scanner,
                      parser, store>>

ConcReturnResults(s) ==
    LET sr == conc.sess[s]
    IN /\ sr.pc = "stats"
       /\ successful_scans' = successful_scans + 1
       /\ conc' = SetSession(s, [sr EXCEPT
                      !.pc = "done",
                      !.results.statistics = CalculateScanStatistics(sr.results)])
       /\ UNCHANGED <<concShared, scan_sessions, scanner, parser, store, metadata>>

NextConc ==
    \E s \in Sessions :
        \/ \E is \in {TRUE}, id \in {FALSE} : ConcScanClusterFull(s, is, id)
        \/ ConcUpdateStatusRunning(s)
        \/ \E outcome \in {"reply", "timeout"}, reply \in AllReplies :
              ConcCallMcpTool(s, outcome, reply)
        \/ ConcParseAndStore(s)
        \/ ConcSleep(s)
        \/ ConcUpdateStatusTerminal(s)
        \/ ConcReturnResults(s)

InitConc == Init /\ max_retries = 1 /\ tool_available /\ missing_tables = {}

SpecConc == InitConc /\ [][NextConc]_vars

\* parse_pods derives the status of one pod
ExtractPodStatus(pod) ==
    /\ pc = "idle"
    /\ last_parse' = [NoParse EXCEPT !.op = "_extract_pod_status", !.pod = pod,
                                     !.status = extract_pod_status(pod),
                                     !.before = parser]
    /\ UNCHANGED <<cfgVars, argVars, pc, tier, attempt, raw, results, returned,
                   counterVars, scanner, parser, store, metadata, now,
                   last_read, last_cleanup, scanner_calls, sleeps, agent_log,
                   scan_exc, meta_failed, last_health, validation, conc>>

NextPods == \E pod \in PodData : ExtractPodStatus(pod)

InitPods == Init /\ max_retries = 0 /\ tool_available /\ missing_tables = {}

\* _extract_pod_status applied to the pods tried
SpecPods == InitPods /\ [][NextPods]_vars

\* the parse_* methods of the Parser
ParserKinds == {"cluster", "namespaces", "nodes", "pods", "services",
                "deployments", "configmaps"}

\* raw data handed to a parse_* method: a dict or prose for the cluster info;
\* for the list kinds an empty list, lists of dicts (one of them with an item
\* that has no name) and lists holding something that is not a dict
ParseInputs(kind) ==
    IF kind = "cluster" THEN {DictReply(<<>>), TextReply}
    ELSE {<<>>, <<Named("a")>>, <<Named("a"), Unnamed, Named("b")>>,
          <<Named("a"), Junk>>, <<Junk>>}

ParseMethod(kind, rawval, cname) ==
    IF kind = "deployments" THEN parse_deployments(rawval, cname)
    ELSE ParseKind(kind, rawval, cname)

\* a caller invokes one parse_* method of the Parser
ParseCall(kind, rawval) ==
    /\ pc = "idle"
    /\ parser.parsed_count + parser.error_count < MaxParsed
    /\ LET res == ParseMethod(kind, rawval, "prod")
       IN /\ parser' = ParserAfter(parser, res)
          /\ last_parse' = [NoParse EXCEPT !.op = "parse", !.kind = kind,
                                           !.rawval = rawval, !.exc = res.exc,
                                           !.before = parser]
    /\ UNCHANGED <<cfgVars, argVars, pc, tier, attempt, raw, results, returned,
                   counterVars, scanner, store, metadata, now,
                   last_read, last_cleanup, scanner_calls, sleeps, agent_log,
                   scan_exc, meta_failed, last_health, validation, conc>>

NextParse == \E kind \in ParserKinds : \E rawval \in ParseInputs(kind) :
                ParseCall(kind, rawval)

InitParse == Init /\ max_retries = 0 /\ tool_available /\ missing_tables = {}

\* the parse_* methods called one after the other on one Parser
SpecParse == InitParse /\ [][NextParse]_vars

NextValidate ==
    \E data \in ValidationData, resource_type \in ValidationKinds,
       required_fields \in ValidationRequired :
          ValidateParsedData(data, resource_type, required_fields)

InitValidate == Init /\ max_retries = 0 /\ tool_available /\ missing_tables = {}

\* validate_parsed_data applied to the arguments tried
SpecValidate == InitValidate /\ [][NextValidate]_vars

----------------------------------------------------------------------------
(* Properties *)

Tiers == {"static", "dynamic"}

\* C1: a tier is recorded as failed only after exactly max_retries + 1 calls
\* of the Scanner, the sleep after attempt i (from 0) is retry_delay * (i + 1),
\* and the delays of a tier are strictly increasing.
C1_RetryBound ==
    \A t \in Tiers :
        /\ results[t].state = "failed" =>
              /\ scanner_calls[t] = max_retries + 1
              /\ results[t].attempt = max_retries + 1
              /\ Len(sleeps[t]) = max_retries
        /\ \A i \in 1..Len(sleeps[t]) : sleeps[t][i] = retry_delay * i
        /\ \A i \in 1..(Len(sleeps[t]) - 1) : sleeps[t][i] < sleeps[t][i + 1]

\* the Scanner failed on every call of the static tier, three calls were made
C1_Witness ==
    /\ max_retries = 2
    /\ results.static.state = "failed"
    /\ scanner_calls.static = 3
    /\ scanner.error_count = 3
    /\ parser.error_count = 0
    /\ sleeps.static = <<5, 10>>

\* C2: when both tiers are requested and the static tier failed all its
\* retries, the result handed back holds the dynamic tier's outcome: the
\* Scanner was called for it, and its success flag, attempt count and counts
\* or error are there.
C2_TierIndependence ==
    (returned.kind = "result" /\ include_static /\ include_dynamic
        /\ returned.value.static.state = "failed") =>
       /\ scanner_calls.dynamic >= 1
       /\ returned.value.dynamic.state \in {"ok", "failed"}
       /\ returned.value.dynamic.attempt \in 1..(max_retries + 1)
       /\ returned.value.dynamic.attempt = scanner_calls.dynamic
       /\ returned.value.dynamic.state = "failed" =>
             returned.value.dynamic.error \in ExceptionClasses
       /\ returned.value.dynamic.state = "ok" =>
             DOMAIN returned.value.dynamic.data # {}

\* static tier failed, dynamic tier succeeded, result returned
C2_Witness ==
    /\ returned.kind = "result"
    /\ returned.value.static.state = "failed"
    /\ returned.value.dynamic.state = "ok"
    /\ returned.value.statistics.dynamic_resources > 0

\* C3: whatever exception a tier attempt ends with, the session never leaves
\* scan_cluster_full by an exception; a tier that used up its retries is
\* entered in the result as failed with its attempt count and error, and the
\* result handed back names the cluster.
C3_RecordedNotRaised ==
    /\ pc # "raised"
    /\ failed_scans = IF returned.kind = "raised" THEN 1 ELSE 0
    /\ \A t \in Tiers :
          results[t].state = "failed" =>
             /\ results[t].attempt = max_retries + 1
             /\ results[t].error \in ExceptionClasses
             /\ results[t].data = EmptyData
    /\ pc = "terminal" => results[tier].state \in {"ok", "failed"}
    /\ returned.kind = "result" =>
          /\ returned.value.cluster_name = cluster_name
          /\ cluster_name \in Clusters

\* a session returned with one tier failed by a Parser exception and the
\* other by a store exception
C3_Witness ==
    /\ returned.kind = "result"
    /\ returned.value.cluster_name = "prod"
    /\ returned.value.static.state = "failed"
    /\ returned.value.static.error \in {"TypeError", "NameError"}
    /\ returned.value.dynamic.state = "failed"
    /\ returned.value.dynamic.error = "StoreError"

\* C4: for each tier a 'running' record precedes the first Scanner call, and
\* the terminal record written after the retry loop says 'completed' when the
\* tier succeeded and 'failed' when it used up its retries.
C4_MetadataLifecycle ==
    "cache_metadata" \notin missing_tables =>
       \A t \in Tiers :
          /\ scanner_calls[t] > 0 =>
                \E i \in 1..Len(metadata) :
                    /\ metadata[i].table_name = t \o "_scan"
                    /\ metadata[i].scan_status = "running"
          /\ \A i \in 1..Len(metadata) :
                (metadata[i].table_name = t \o "_scan"
                    /\ metadata[i].scan_status # "running") =>
                   /\ results[t].state \in {"ok", "failed"}
                   /\ metadata[i].scan_status =
                         IF results[t].state = "ok" THEN "completed" ELSE "failed"

\* C5: while the dynamic tier is being scanned the static tier, if requested,
\* has its outcome (with all its sleeps behind it); no dynamic Scanner call
\* is made while the static tier runs, and one Scanner call invokes the agent
\* for kinds of its own tier only.
C5_SequentialTiers ==
    /\ (tier = "dynamic" /\ pc # "idle" /\ include_static) =>
          /\ results.static.state \in {"ok", "failed"}
          /\ results.static.state = "failed" => Len(sleeps.static) = max_retries
    /\ (scanner_calls.dynamic > 0 /\ include_static) =>
          results.static.state \in {"ok", "failed"}
    /\ (tier = "static" /\ pc # "idle") =>
          (scanner_calls.dynamic = 0 /\ sleeps.dynamic = <<>>)
    /\ \A i \in 1..Len(agent_log) :
          \E j \in 1..Len(KindsOf(tier)) : KindsOf(tier)[j] = agent_log[i]

\* the first dynamic sub-call is out after the static tier needed three attempts
C5_Witness ==
    /\ tier = "dynamic"
    /\ pc = "scan"
    /\ agent_log = <<"pods">>
    /\ results.static.state = "ok"
    /\ results.static.attempt = 3
    /\ sleeps.static = <<5, 10>>

\* C6: a step in which the store refuses a metadata record does not end the
\* session by an exception and leaves the tier results, the records, the
\* counters and the course of the session as an accepted write does.
C6_MetadataFailureSwallowed ==
    [][(meta_failed' > meta_failed) =>
          /\ pc' \in {"scan", "running", "stats", "idle"}
          /\ pc = "running" => pc' = "scan"
          /\ pc' = "idle" <=> pc = "stats"
          /\ pc = "terminal" =>
                pc' = PcForTier(NextTier(tier, include_static, include_dynamic))
          /\ results' = results
          /\ store' = store
          /\ metadata' = metadata
          /\ <<scan_sessions, successful_scans>>' =
                <<scan_sessions, successful_scans>>
          /\ failed_scans' = IF pc = "stats" THEN failed_scans + 1
                             ELSE failed_scans]_vars

\* every metadata write of a two-tier session was refused and the session
\* returned its counts
C6_Witness ==
    /\ meta_failed = 4
    /\ metadata = <<>>
    /\ returned.kind = "result"
    /\ returned.value.static.state = "ok"
    /\ returned.value.dynamic.state = "ok"
    /\ returned.value.statistics.total_resources > 0
    /\ successful_scans = 1

\* C7: an agent call that runs into the timeout leaves scan_static_resources /
\* scan_dynamic_resources as ScanTimeoutError, and the Coordinator enters it
\* as a tier failure.
C7_TimeoutSurfaces ==
    scan_exc.cause = "timeout" =>
       /\ scan_exc.surfaced = "ScanTimeoutError"
       /\ pc = "terminal" => results[tier].state = "failed"

\* C8: when the capability lookup knows no tool, the Scanner call ends with
\* ToolNotFoundError and the agent is not invoked.
C8_ToolNotFound ==
    ~tool_available =>
       /\ agent_log = <<>>
       /\ scan_exc.surfaced \in {NoExc, "ToolNotFoundError"}

\* C9: every row of 'secrets' holds cluster_name, namespace, name, the key
\* count and the labels and nothing else, and it is the row the same secret
\* gives with every value under data / binaryData replaced, so replies that
\* differ in the values only leave the same rows.
C9_SecretRedaction ==
    \A i \in 1..Len(store["secrets"]) :
        LET d == store["secrets"][i].data
            Blank(pairs) == {<<p[1], "*">> : p \in pairs}
            Scrubbed(it) == [it EXCEPT !.data = Blank(@), !.binaryData = Blank(@)]
            SecretItems == {r.items[1] : r \in Replies("secrets")}
        IN /\ DOMAIN d = {"cluster_name", "namespace", "name", "total_keys", "labels"}
           /\ d.total_keys = 1
           /\ \E it \in SecretItems :
                 d = Persisted("secrets",
                               parse_configmaps(<<Scrubbed(it)>>, cluster_name).recs)[1]

\* a dynamic tier that stored a secret
C9_Witness ==
    /\ Len(store["secrets"]) >= 1
    /\ results.dynamic.state = "ok"
    /\ results.dynamic.data["secrets"] = 1

\* C10: a freshness-filtered read hands back no row whose ttl_expires_at is
\* in the past and every row whose TTL has not expired; after
\* cleanup_expired_cache no table holds an expired row, and the rows that
\* were not expired are still there.
C10_TtlInvariant ==
    [][/\ last_read'.table # Absent =>
            LET rows == last_read'.rows
                tab == store'[last_read'.table]
            IN /\ \A i \in 1..Len(rows) : rows[i].ttl_expires_at >= now'
               /\ Len(rows) = Cardinality({j \in 1..Len(tab) :
                                              tab[j].ttl_expires_at >= now'})
       /\ last_cleanup'.done =>
            \A t \in RecordTables \ missing_tables :
               /\ \A i \in 1..Len(store'[t]) : store'[t][i].ttl_expires_at >= now'
               /\ Len(store'[t]) = Cardinality({j \in 1..Len(store[t]) :
                                                   store[t][j].ttl_expires_at >= now})
               /\ \A i \in 1..Len(store'[t]) :
                     \E j \in 1..Len(store[t]) : store[t][j] = store'[t][i]]_vars

\* a cleanup deleted an expired row and left a fresh one
C10_Witness ==
    /\ last_cleanup.done
    /\ last_cleanup.stats["total"] >= 1
    /\ \E t \in RecordTables : Len(store[t]) >= 1


\* C11: in every result handed back, total_resources is static_resources +
\* dynamic_resources, each of the two is the sum of the per-kind counts of
\* its tier, resource_breakdown holds exactly those counts, and a tier that
\* failed or was not requested adds nothing to any figure.
C11_StatisticsAggregation ==
    returned.kind = "result" =>
       LET v == returned.value
           st == v.statistics
           sd == v.static.data
           dd == v.dynamic.data
           Cnt(d, k) == IF k \in DOMAIN d THEN d[k] ELSE 0
           staticKeys == {"clusters", "namespaces", "nodes"}
           dynamicKeys == {"pods", "services", "deployments", "configmaps", "secrets"}
       IN /\ st.total_resources = st.static_resources + st.dynamic_resources
          /\ st.static_resources =
                Cnt(sd, "clusters") + Cnt(sd, "namespaces") + Cnt(sd, "nodes")
          /\ st.dynamic_resources =
                Cnt(dd, "pods") + Cnt(dd, "services") + Cnt(dd, "deployments")
                + Cnt(dd, "configmaps") + Cnt(dd, "secrets")
          /\ DOMAIN sd \subseteq staticKeys
          /\ DOMAIN dd \subseteq dynamicKeys
          /\ DOMAIN st.resource_breakdown = DOMAIN sd \cup DOMAIN dd
          /\ \A k \in DOMAIN sd : st.resource_breakdown[k] = sd[k]
          /\ \A k \in DOMAIN dd : st.resource_breakdown[k] = dd[k]
          /\ v.static.state # "ok" =>
                /\ st.static_resources = 0
                /\ DOMAIN st.resource_breakdown \cap staticKeys = {}
          /\ v.dynamic.state # "ok" =>
                /\ st.dynamic_resources = 0
                /\ DOMAIN st.resource_breakdown \cap dynamicKeys = {}

\* both tiers counted, and a result where the failed dynamic tier adds nothing
C11_Witness ==
    /\ returned.kind = "result"
    /\ returned.value.static.state = "ok"
    /\ returned.value.dynamic.state = "failed"
    /\ returned.value.statistics.static_resources >= 3
    /\ returned.value.statistics.total_resources =
          returned.value.statistics.static_resources


\* C12: a static attempt that succeeds on a reply with one cluster record, n
\* named namespaces and m named nodes enters {clusters: 1, namespaces: n,
\* nodes: m} and creates exactly 1 + n + m records; a static-only session then
\* hands back that breakdown with total_resources = 1 + n + m.
C12_EndToEndStatic ==
    [][/\ (pc = "parse" /\ tier = "static" /\ results'.static.state = "ok") =>
             LET n == Cardinality({i \in 1..Len(raw[2]) : raw[2][i].name # Absent})
                 m == Cardinality({i \in 1..Len(raw[3]) : raw[3][i].name # Absent})
             IN /\ raw[1].isdict
                /\ results'.static.data =
                      [clusters |-> 1, namespaces |-> n, nodes |-> m]
                /\ Len(store'["clusters"]) = Len(store["clusters"]) + 1
                /\ Len(store'["namespaces"]) = Len(store["namespaces"]) + n
                /\ Len(store'["nodes"]) = Len(store["nodes"]) + m
                /\ \A t \in RecordTables \ {"clusters", "namespaces", "nodes"} :
                      store'[t] = store[t]
       /\ (pc = "stats" /\ returned'.kind = "result" /\ include_static
              /\ ~include_dynamic /\ results.static.state = "ok") =>
             LET d == results.static.data
                 st == returned'.value.statistics
             IN /\ st.resource_breakdown = d
                /\ st.total_resources = d["clusters"] + d["namespaces"] + d["nodes"]
                /\ st.total_resources = st.static_resources]_vars

\* the case n = 2, m = 2: five records stored, total 5
C12_Witness ==
    /\ returned.kind = "result"
    /\ ~include_dynamic
    /\ returned.value.static.attempt = 1
    /\ returned.value.statistics.resource_breakdown =
          [clusters |-> 1, namespaces |-> 2, nodes |-> 2]
    /\ returned.value.statistics.total_resources = 5
    /\ Len(store["clusters"]) = 1
    /\ Len(store["namespaces"]) = 2
    /\ Len(store["nodes"]) = 2


\* C13: when scan_cluster_full ends by an exception, the exception is a
\* ScanError, failed_scans has been incremented and no result was handed back.
C13_RaisesScanError ==
    returned.kind = "raised" =>
       /\ returned.exc = "ScanError"
       /\ failed_scans = 1
       /\ returned.value = EmptyResults


\* C14: health_check hands back 'healthy' with no issue, 'degraded' with one
\* or two and 'unhealthy' with more; there is one issue for a scanner success
\* rate below 50, one for a parser success rate below 90, one for a failed
\* statistics query of the store and no other, and the call returns a dict
\* whatever it meets.
C14_HealthStatus ==
    /\ last_health.kind \in {"none", "result"}
    /\ last_health.kind = "result" =>
          LET issues == last_health.issues
              n == Len(issues)
              Has(tag) == \E i \in 1..n : issues[i] = tag
              scannerLow == 100 * (scanner.scan_count - scanner.error_count)
                               < 50 * (IF scanner.scan_count = 0 THEN 1
                                       ELSE scanner.scan_count)
              parserLow == 100 * (parser.parsed_count - parser.error_count)
                              < 90 * (IF parser.parsed_count = 0 THEN 1
                                      ELSE parser.parsed_count)
              storeDown == last_health.components.cache_manager = "unhealthy"
              B(b) == IF b THEN 1 ELSE 0
          IN /\ last_health.status =
                   IF n = 0 THEN "healthy"
                   ELSE IF n \in {1, 2} THEN "degraded" ELSE "unhealthy"
             /\ Has("cluster_scanner") <=> scannerLow
             /\ Has("resource_parser") <=> parserLow
             /\ Has("cache_manager") <=> storeDown
             /\ n = B(scannerLow) + B(parserLow) + B(storeDown)

\* after a session with a parse failure the parser rate alone is too low
C14_Witness ==
    /\ last_health.kind = "result"
    /\ last_health.status = "degraded"
    /\ last_health.issues = <<"resource_parser">>
    /\ scanner.scan_count >= 1
    /\ returned.kind = "result"


\* C15: cleanup_expired_cache hands back a count for each of the seven record
\* kinds and 'total'; a kind whose table is missing is reported with 0, every
\* other kind is cleaned of its expired rows and reported with the number of
\* rows deleted, wherever in the order the missing table is, and 'total' is
\* the sum of the seven counts.
C15_CleanupTolerance ==
    [][last_cleanup'.done =>
          LET stats == last_cleanup'.stats
              kinds == {"clusters", "namespaces", "nodes", "pods", "services",
                        "configmaps", "secrets"}
          IN /\ DOMAIN stats = kinds \cup {"total"}
             /\ \A k \in kinds \cap missing_tables :
                   stats[k] = 0 /\ store'[k] = store[k]
             /\ \A k \in kinds \ missing_tables :
                   /\ stats[k] = Len(store[k]) - Len(store'[k])
                   /\ stats[k] = Cardinality({i \in 1..Len(store[k]) :
                                                 store[k][i].ttl_expires_at < now})
             /\ stats["total"] =
                   stats["clusters"] + stats["namespaces"] + stats["nodes"]
                   + stats["pods"] + stats["services"] + stats["configmaps"]
                   + stats["secrets"]]_vars

\* the namespaces table is missing and expired pods, later in the loop, were
\* deleted all the same
C15_Witness ==
    /\ missing_tables = {"namespaces"}
    /\ last_cleanup.done
    /\ last_cleanup.stats["namespaces"] = 0
    /\ last_cleanup.stats["pods"] >= 1
    /\ last_cleanup.stats["total"] = last_cleanup.stats["pods"]
    /\ store["pods"] = <<>>


\* C16: after a successful tier attempt every kind the Scanner returned for
\* the tier has its count in the tier's result: clusters, namespaces and nodes
\* for the static tier; pods, services, deployments, configmaps and secrets
\* for the dynamic tier.
C16_EveryKindPersisted ==
    /\ results.static.state = "ok" =>
          DOMAIN results.static.data = {"clusters", "namespaces", "nodes"}
    /\ results.dynamic.state = "ok" =>
          DOMAIN results.dynamic.data =
             {"pods", "services", "deployments", "configmaps", "secrets"}


\* C18: one scan_static_resources / scan_dynamic_resources call invokes the
\* agent once per kind at most, in the order of the kinds; the sub-call that
\* fails is the last invocation of the call, which then ends with an error;
\* the Coordinator makes one such call per attempt.
C18_ScannerNeverRetries ==
    LET expected == IF tier = "static" THEN <<"cluster", "namespaces", "nodes">>
                    ELSE <<"pods", "services", "deployments", "configmaps",
                           "secrets">>
        inFlight == IF pc = "scan" /\ raw # <<>> THEN 1 ELSE 0
    IN /\ Len(agent_log) <= Len(expected)
       /\ \A i \in 1..Len(agent_log) : agent_log[i] = expected[i]
       /\ scan_exc.cause # NoExc =>
             /\ pc \in {"sleep", "terminal"}
             /\ agent_log # <<>>
             /\ agent_log[Len(agent_log)] = scan_exc.kind
             /\ raw = <<>>
       /\ pc \in {"scan", "parse", "sleep"} =>
             scanner_calls[tier] \in {attempt, attempt + 1}
       /\ scanner.scan_count + scanner.error_count + inFlight =
             scanner_calls.static + scanner_calls.dynamic

\* the namespaces sub-call timed out: two invocations, none for the nodes
C18_Witness ==
    /\ pc = "terminal"
    /\ scan_exc.cause = "timeout"
    /\ scan_exc.kind = "namespaces"
    /\ agent_log = <<"cluster", "namespaces">>
    /\ scanner_calls.static = 1
    /\ scanner.error_count = 1
    /\ scanner.scan_count = 0


\* C19: validate_parsed_data returns True for a record that has every
\* required field non-null and meets the invariant of its kind, and raises
\* ScanValidationError, and nothing else, for a record that misses a required
\* field, has it null or breaks the invariant of its kind.
C19_ValidateParsedData ==
    validation.kind = "done" =>
       LET d == validation.data
           f == d.fields
           Given(k) == k \in DOMAIN f /\ f[k] # "<null>"
           hasRequired == \A k \in validation.required_fields : Given(k)
           kindOk ==
              CASE validation.resource_type = "cluster" ->
                      Given("node_count") /\ f["node_count"] \in {"0", "3"}
                [] validation.resource_type = "pod" ->
                      Given("phase") /\ f["phase"] \in {"Pending", "Running",
                                                        "Succeeded", "Failed",
                                                        "Unknown"}
                [] validation.resource_type = "service" ->
                      Given("type") /\ f["type"] \in {"ClusterIP", "NodePort",
                                                      "LoadBalancer",
                                                      "ExternalName"}
                [] OTHER -> TRUE
       IN /\ validation.result.kind \in {"true", "raised"}
          /\ validation.result.kind = "raised" =>
                validation.result.exc = "ScanValidationError"
          /\ (d.shape = "dict" /\ DOMAIN f # {}) =>
                (validation.result.kind = "true" <=> (hasRequired /\ kindOk))


\* C20: a session that is about to enter a tier can always do so, whatever
\* the other session of the same cluster is doing; every status write of
\* both sessions is appended to the metadata in the order the writes happen,
\* and within a session the writes of a tier are 'running' then the terminal
\* one.
C20_NoMutualExclusion ==
    /\ \A s \in Sessions :
          conc.sess[s].pc = "running" => ENABLED ConcUpdateStatusRunning(s)
    /\ Len(metadata) = Len(conc.log)
    /\ \A i \in 1..Len(conc.log) :
          /\ metadata[i].table_name = conc.log[i].tier \o "_scan"
          /\ metadata[i].scan_status = conc.log[i].status
    /\ \A s \in Sessions, t \in {"static", "dynamic"} :
          LET mine == {i \in 1..Len(conc.log) :
                          conc.log[i].session = s /\ conc.log[i].tier = t}
          IN /\ Cardinality(mine) <= 2
             /\ \A i \in mine, j \in mine :
                   i < j => (conc.log[i].status = "running"
                             /\ conc.log[j].status # "running")

\* running(A), running(B), terminal(A), terminal(B) on the static tier, with
\* records of both sessions in the same table
C20_Witness ==
    /\ Len(conc.log) >= 4
    /\ conc.log[1] = [session |-> "A", tier |-> "static", status |-> "running"]
    /\ conc.log[2] = [session |-> "B", tier |-> "static", status |-> "running"]
    /\ conc.log[3] = [session |-> "A", tier |-> "static", status |-> "completed"]
    /\ conc.log[4] = [session |-> "B", tier |-> "static", status |-> "completed"]
    /\ Len(store["clusters"]) = 2



\* C21: no step of a session deletes or changes a record: every table keeps
\* the rows it had, in place; a static attempt that fails in parse-and-store
\* after the cluster record (and the namespace records) were created leaves
\* exactly those new records in the store, and a dynamic attempt that fails
\* after the pods were created leaves the pod records.
C21_NoRollback ==
    [][/\ \A t \in RecordTables :
             /\ Len(store'[t]) >= Len(store[t])
             /\ \A i \in 1..Len(store[t]) : store'[t][i] = store[t][i]
       /\ (pc = "parse" /\ pc' \in {"sleep", "terminal"}
              /\ results'[tier].state # "ok") =>
             LET first == IF tier = "static" THEN "clusters" ELSE "pods"
                 Named1 == IF tier = "static" THEN 1
                           ELSE Cardinality({i \in 1..Len(raw[1]) :
                                                raw[1][i].name # Absent})
                 firstParses == IF tier = "static" THEN raw[1].isdict
                                ELSE \A i \in 1..Len(raw[1]) : raw[1][i].isdict
                 nsOk == /\ tier = "static"
                         /\ \A i \in 1..Len(raw[2]) : raw[2][i].isdict
                         /\ "namespaces" \notin missing_tables
                 n == Cardinality({i \in 1..Len(raw[2]) : raw[2][i].name # Absent})
             IN (firstParses /\ first \notin missing_tables) =>
                   /\ Len(store'[first]) = Len(store[first]) + Named1
                   /\ nsOk => Len(store'["namespaces"]) =
                                 Len(store["namespaces"]) + n]_vars

\* the static tier failed on its only attempt at the nodes, after one cluster
\* record and two namespace records had been created; they are still there
\* when the session has returned
C21_Witness ==
    /\ max_retries = 0
    /\ returned.kind = "result"
    /\ ~include_dynamic
    /\ returned.value.static.state = "failed"
    /\ returned.value.static.error = "NameError"
    /\ Len(store["clusters"]) = 1
    /\ Len(store["namespaces"]) = 2
    /\ store["nodes"] = <<>>



\* C22: no step removes or changes a metadata record; every status write the
\* store accepts adds one record for the tier and cluster at hand, so the
\* number of records of a (tier, cluster) never decreases; and a session with
\* k requested tiers that returns normally has added exactly 2k records, two
\* for each requested tier, when the store accepted every write.
C22_AppendOnlyMetadata ==
    [][LET Count(md, t) ==
              Cardinality({i \in 1..Len(md) :
                              /\ md[i].table_name = t \o "_scan"
                              /\ md[i].cluster_name = cluster_name'})
           B(b) == IF b THEN 1 ELSE 0
       IN /\ Len(metadata') >= Len(metadata)
          /\ \A i \in 1..Len(metadata) : metadata'[i] = metadata[i]
          /\ \A t \in Tiers : Count(metadata', t) >= Count(metadata, t)
          /\ (pc \in {"running", "terminal"}
                 /\ "cache_metadata" \notin missing_tables) =>
                /\ Len(metadata') = Len(metadata) + 1
                /\ Count(metadata', tier) = Count(metadata, tier) + 1
                /\ metadata'[Len(metadata')].scan_status =
                      IF pc = "running" THEN "running" ELSE "completed"
          /\ (pc = "stats" /\ returned'.kind = "result"
                 /\ "cache_metadata" \notin missing_tables) =>
                /\ Len(metadata') = 2 * (B(include_static) + B(include_dynamic))
                /\ Count(metadata', "static") = 2 * B(include_static)
                /\ Count(metadata', "dynamic") = 2 * B(include_dynamic)]_vars

\* a two-tier session returned after the static tier had needed three
\* attempts: four records, two per tier
C22_Witness ==
    /\ returned.kind = "result"
    /\ include_static /\ include_dynamic
    /\ returned.value.static.attempt = 3
    /\ Len(metadata) = 4
    /\ metadata[1].table_name = "static_scan" /\ metadata[1].scan_status = "running"
    /\ metadata[2].table_name = "static_scan" /\ metadata[2].scan_status = "completed"
    /\ metadata[3].table_name = "dynamic_scan" /\ metadata[3].scan_status = "running"
    /\ metadata[4].table_name = "dynamic_scan"



\* C23: the status derived for a pod is 'Running' exactly when the phase is
\* 'Running' and every container status has ready = true, 'NotReady' when the
\* phase is 'Running' and some container status is not ready, and the phase
\* itself in every other case, where a missing phase counts as 'Unknown'.
C23_PodStatusDerivation ==
    last_parse.op = "_extract_pod_status" =>
       LET p == last_parse.pod
           cs == p.containerStatuses
           notReady == {i \in 1..Len(cs) : cs[i] # "true"}
       IN /\ last_parse.status = "Running" <=>
                (p.phase = "Running" /\ notReady = {})
          /\ (p.phase = "Running" /\ notReady # {}) =>
                last_parse.status = "NotReady"
          /\ (p.phase \notin {"Running", "<absent>"}) =>
                last_parse.status = p.phase
          /\ p.phase = "<absent>" => last_parse.status = "Unknown"

\* a running pod with one of three containers not ready is 'NotReady'
C23_Witness ==
    /\ last_parse.op = "_extract_pod_status"
    /\ last_parse.pod.phase = "Running"
    /\ last_parse.pod.containerStatuses = <<"true", "false", "true">>
    /\ last_parse.status = "NotReady"



\* C24: a parse_* call on input it cannot process (a cluster reply that is not
\* a dict, a list holding an item that is not a dict) raises
\* ResourceParseError, has incremented error_count by exactly one and has left
\* parsed_count as it was.
C24_ParseFailureTyped ==
    last_parse.op = "parse" =>
       LET rv == last_parse.rawval
           unprocessable ==
              IF last_parse.kind = "cluster" THEN ~rv.isdict
              ELSE \E i \in 1..Len(rv) : ~rv[i].isdict
       IN unprocessable =>
             /\ last_parse.exc = "ResourceParseError"
             /\ parser.error_count = last_parse.before.error_count + 1
             /\ parser.parsed_count = last_parse.before.parsed_count



\* C25: when a tier has succeeded on an attempt after the first, every table
\* of the tier has received, over the whole retry loop, exactly the records
\* the successful attempt counted for it, each of them once.
C25_NoDuplicateWrites ==
    \A t \in Tiers :
        (results[t].state = "ok" /\ results[t].attempt > 1) =>
           \A table \in DOMAIN results[t].data :
              /\ Len(store[table]) = results[t].data[table]
              /\ \A i \in 1..Len(store[table]), j \in 1..Len(store[table]) :
                    store[table][i] = store[table][j] => i = j



\* C26: when every Scanner call returns or raises and every sleep ends, a
\* session that has started eventually hands back a result or raises, and at
\* no time has it made more than max_retries + 1 Scanner calls for a tier,
\* none for a tier that was not requested.
C26_Termination ==
    /\ [](\A t \in Tiers :
             /\ scanner_calls[t] <= max_retries + 1
             /\ (pc # "idle" /\ ~TierRequested(t, include_static, include_dynamic))
                   => scanner_calls[t] = 0)
    /\ (pc # "idle") ~> (pc = "idle" /\ returned.kind \in {"result", "raised"})

\* a session that used all three attempts of both tiers has returned
C26_Witness ==
    /\ max_retries = 2
    /\ pc = "idle"
    /\ returned.kind = "result"
    /\ scanner_calls.static = 3
    /\ scanner_calls.dynamic = 3
    /\ returned.value.static.state = "failed"
    /\ returned.value.dynamic.state = "failed"



\* C27: a step that starts a session adds one to scan_sessions and leaves the
\* other two counters; the step that ends a session adds one to
\* successful_scans when it hands back a result and one to failed_scans when
\* it raises, never to both; no other step touches the counters; so whenever
\* no session is in progress scan_sessions = successful_scans + failed_scans.
C27_SessionCounters ==
    /\ [](pc = "idle" => scan_sessions = successful_scans + failed_scans)
    /\ [](pc # "idle" => scan_sessions = successful_scans + failed_scans + 1)
    /\ [][/\ (pc = "idle" /\ pc' # "idle") =>
                /\ scan_sessions' = scan_sessions + 1
                /\ successful_scans' = successful_scans
                /\ failed_scans' = failed_scans
          /\ (pc # "idle" /\ pc' = "idle") =>
                /\ scan_sessions' = scan_sessions
                /\ returned'.kind \in {"result", "raised"}
                /\ returned'.kind = "result" =>
                      /\ successful_scans' = successful_scans + 1
                      /\ failed_scans' = failed_scans
                /\ returned'.kind = "raised" =>
                      /\ failed_scans' = failed_scans + 1
                      /\ successful_scans' = successful_scans
          /\ ((pc = "idle") <=> (pc' = "idle")) =>
                <<scan_sessions, successful_scans, failed_scans>>' =
                   <<scan_sessions, successful_scans, failed_scans>>]_vars

\* three sessions are over: two handed back a result, one raised
C27_Witness ==
    /\ pc = "idle"
    /\ scan_sessions = 3
    /\ successful_scans = 2
    /\ failed_scans = 1



\* C28: a step adds to successful_scans only at the end of a session in which
\* every requested tier ended as a success; a session with a tier that used
\* up its retries leaves successful_scans as it was.
C28_SuccessfulScansOnlyFull ==
    [][(successful_scans' # successful_scans) =>
          /\ successful_scans' = successful_scans + 1
          /\ \A t \in Tiers :
                TierRequested(t, include_static, include_dynamic) =>
                   results[t].state = "ok"]_vars



\* C29: whatever calls have succeeded and failed so far, the success_rate of
\* get_scan_stats and the success_rate of get_parsing_stats are between 0 and
\* 100.
C29_SuccessRatesArePercentages ==
    LET InRange(stats) ==
           /\ stats.rate_num * 100 >= 0 * stats.rate_den
           /\ stats.rate_num * 100 <= 100 * stats.rate_den
    IN /\ InRange(get_scan_stats(scanner))
       /\ InRange(get_parsing_stats(parser))



\* C30: a health_check whose statistics query of the store succeeded, made
\* while the Scanner and the Parser have error_count = 0, hands back
\* 'healthy' with no issue; this includes a Coordinator that has not scanned
\* or parsed anything yet.
C30_HealthyWhenNoFailure ==
    (/\ last_health.kind = "result"
     /\ last_health.components.cache_manager = "healthy"
     /\ scanner.error_count = 0
     /\ parser.error_count = 0) =>
       /\ last_health.status = "healthy"
       /\ last_health.issues = <<>>

====
